---- MODULE Spec2Model ----
(***************************************************************************)
(* A model of traintrack's configuration resolution and staged            *)
(* orchestration: utils/config_utils.py (find_checkpoint, find_config,    *)
(* load_config, combo_config, dict_to_args, submit_batch) and             *)
(* utils/model_utils.py (get_resume_id).                                  *)
(*                                                                         *)
(* Python values are tagged records, dicts are sequences of entries in    *)
(* insertion order, paths are strings joined with "/".                    *)
(***************************************************************************)
EXTENDS Integers, Sequences, FiniteSets, TLC

VARIABLES
    \* --- load_config / combo_config / dict_to_args on one stage ---------
    cfg_pc,        \* "start", "loaded", "failed", "expanded", "serialized"
    cfg_in,        \* the inputs of the call: stage, project_config, run_args, fs
    cfg_out,       \* what load_config returned or raised
    cfg_list,      \* what combo_config returned
    cfg_args,      \* dict_to_args of every element of cfg_list
    \* --- find_checkpoint over a directory tree --------------------------
    fc_pc,         \* "setup", "done"
    fc_fs,         \* the artifact tree
    fc_run_id,     \* the run id searched for
    fc_result,     \* what find_checkpoint returned
    \* --- the pipeline: the orchestrator and the batch scheduler ---------
    pl_in,         \* stage_list, project_config, run_args, fs
    pl_idx,        \* the stage the orchestrator is at
    pl_state,      \* the state of every stage
    pl_config,     \* the resolved config of the stage at pl_idx
    pl_runs,       \* its RunConfigs
    pl_next,       \* the next RunConfig to hand on
    running_id,    \* the previous job handle
    pl_error,      \* the error that ended the run, "" if none
    executed,      \* the runs handed to the trainer in local mode
    jobs,          \* the scheduler's queue, a job's handle is its index
    \* --- configure_logging on the root logger ---------------------------
    lg_handlers,   \* the root logger's handlers, in the order they were added
    lg_levels,     \* the level of every logger configure_logging sets
    lg_fs,         \* the directories and files that exist
    lg_calls,      \* how many calls have returned
    lg_last        \* the arguments of the last call and whether it opened its file

cfg_vars == <<cfg_pc, cfg_in, cfg_out, cfg_list, cfg_args>>
fc_vars == <<fc_pc, fc_fs, fc_run_id, fc_result>>
pl_vars == <<pl_in, pl_idx, pl_state, pl_config, pl_runs, pl_next, running_id,
             pl_error, executed, jobs>>
lg_vars == <<lg_handlers, lg_levels, lg_fs, lg_calls, lg_last>>
vars == <<cfg_vars, fc_vars, pl_vars, lg_vars>>

(***************************************************************************)
(* Bounds of the model.                                                    *)
(***************************************************************************)
MaxAxisLen == 2     \* longest list value drawn for a swept key
MaxDirs == 4        \* most directories created under the artifact library
MaxStages == 3      \* longest stage list
MaxJobs == 4        \* most jobs the scheduler accepts
MaxCalls == 3       \* most calls of configure_logging

(***************************************************************************)
(* Python values.                                                          *)
(***************************************************************************)
PyNone == [t |-> "none"]
PyInt(i) == [t |-> "int", n |-> i]
PyBool(b) == [t |-> "bool", b |-> b]
PyString(s) == [t |-> "str", s |-> s]
PyList(l) == [t |-> "list", l |-> l]
PyDict(m) == [t |-> "dict", m |-> m]

\* bool(v): Python truthiness
Truthy(v) ==
    CASE v.t = "none" -> FALSE
      [] v.t = "bool" -> v.b
      [] v.t = "int" -> v.n # 0
      [] v.t = "str" -> v.s # ""
      [] v.t = "list" -> v.l # <<>>
      [] v.t = "dict" -> v.m # <<>>

\* str(v) of a value that is not a container
PyStr(v) ==
    CASE v.t = "none" -> "None"
      [] v.t = "bool" -> (IF v.b THEN "True" ELSE "False")
      [] v.t = "int" -> ToString(v.n)
      [] v.t = "str" -> v.s

(***************************************************************************)
(* dict: a sequence of entries [k, v] with distinct keys, in insertion     *)
(* order.                                                                  *)
(***************************************************************************)
Entry(k, v) == [k |-> k, v |-> v]

Keys(d) == [i \in 1..Len(d) |-> d[i].k]

Has(d, k) == \E i \in 1..Len(d) : d[i].k = k

Get(d, k) == d[CHOOSE i \in 1..Len(d) : d[i].k = k].v

\* d[k] = v : a present key keeps its position, a new key is appended
SetItem(d, k, v) ==
    IF Has(d, k)
    THEN [i \in 1..Len(d) |-> IF d[i].k = k THEN Entry(k, v) ELSE d[i]]
    ELSE Append(d, Entry(k, v))

\* d.update(other): one d[k] = v per entry of other, in other's order
RECURSIVE Update(_, _)
Update(d, other) ==
    IF other = <<>> THEN d
    ELSE Update(SetItem(d, Head(other).k, Head(other).v), Tail(other))

\* os.path.join of a directory and a relative name
Join(a, b) == a \o "/" \o b

(***************************************************************************)
(* The file system: directories in the order os.scandir reports them, and  *)
(* files with their parsed content (the mapping of a YAML file, the        *)
(* hyper_parameters of a checkpoint).                                      *)
(***************************************************************************)
Dir(parent, name) == [parent |-> parent, name |-> name]
File(parent, name, content) == [parent |-> parent, name |-> name, content |-> content]

PathOf(e) == Join(e.parent, e.name)

IsDir(fs, path) == \E i \in 1..Len(fs.dirs) : PathOf(fs.dirs[i]) = path

\* the dirs of one os.walk step: the names of path's subdirectories
DirNames(fs, path) ==
    LET sub == SelectSeq(fs.dirs, LAMBDA e : e.parent = path)
    IN  [i \in 1..Len(sub) |-> sub[i].name]

\* the files of one os.walk step
FileNames(fs, path) == {f.name : f \in {g \in fs.files : g.parent = path}}

\* os.walk(path), top-down: the roots it yields, in order
RECURSIVE WalkFrom(_, _), WalkEach(_, _, _)
WalkFrom(fs, root) == <<root>> \o WalkEach(fs, root, DirNames(fs, root))
WalkEach(fs, root, names) ==
    IF names = <<>> THEN <<>>
    ELSE WalkFrom(fs, Join(root, Head(names))) \o WalkEach(fs, root, Tail(names))

os_walk(fs, path) == IF IsDir(fs, path) THEN WalkFrom(fs, path) ELSE <<>>

InSeq(x, s) == \E i \in 1..Len(s) : s[i] = x

(***************************************************************************)
(* find_checkpoint, find_config                                            *)
(***************************************************************************)
\* find_checkpoint looking only at the listing of path itself
find_checkpoint_flat(fs, run_id, path) ==
    IF IsDir(fs, path) /\ InSeq(run_id, DirNames(fs, path))
    THEN PyString(Join(Join(path, run_id), "checkpoints/last.ckpt"))
    ELSE PyNone

find_checkpoint(fs, run_id, path) ==
    LET roots == os_walk(fs, path)
        hits == SelectSeq(roots, LAMBDA r : InSeq(run_id, DirNames(fs, r)))
    IN  IF hits = <<>> THEN PyNone
        ELSE PyString(Join(Join(Head(hits), run_id), "checkpoints/last.ckpt"))

find_config(fs, name, path) ==
    LET roots == os_walk(fs, path)
        hits == SelectSeq(roots, LAMBDA r : name \in FileNames(fs, r))
    IN  IF hits = <<>> THEN PyNone ELSE PyString(Join(Head(hits), name))

\* model_utils.get_resume_id
get_resume_id(stage) == IF Has(stage, "resume_id") THEN Get(stage, "resume_id") ELSE PyNone

(***************************************************************************)
(* load_config                                                             *)
(***************************************************************************)
Raised(kind) == [err |-> kind, config |-> <<>>]
Returned(config) == [err |-> "", config |-> config]

\* the file open() or torch.load() reads at a path
FileAt(fs, path) == {f \in fs.files : PathOf(f) = path}
ContentAt(fs, path) == (CHOOSE f \in FileAt(fs, path) : TRUE).content

\* ApplyInference without the test of run_args.batch
ApplyInferenceIgnoringBatch(config, run_args) ==
    IF "inference" \in DOMAIN run_args /\ run_args.inference
    THEN SetItem(config, "inference", PyBool(TRUE))
    ELSE IF "inference" \in DOMAIN run_args /\ ~run_args.inference
    THEN SetItem(config, "inference", PyBool(FALSE))
    ELSE config

\* lines 160-165: the inference flag of run_args
ApplyInference(config, run_args) ==
    IF "inference" \in DOMAIN run_args /\ run_args.inference
    THEN SetItem(config, "inference", PyBool(TRUE))
    ELSE IF "inference" \in DOMAIN run_args /\ ~run_args.inference /\ ~run_args.batch
    THEN SetItem(config, "inference", PyBool(FALSE))
    ELSE config

\* MergeLayers with the stage applied before the libraries
MergeLayersStageFirst(config, stage, project_config) ==
    LET c1 == IF Has(stage, "override")
              THEN Update(config, Get(stage, "override").m)
              ELSE config
        c2 == Update(c1, stage)
    IN  Update(c2, project_config.libraries)

\* lines 154-159: the override, the libraries, the stage
MergeLayers(config, stage, project_config) ==
    LET c1 == IF Has(stage, "override")
              THEN Update(config, Get(stage, "override").m)
              ELSE config
        c2 == Update(c1, project_config.libraries)
    IN  Update(c2, stage)

\* BaseFromFile taking a file that is not found for an empty mapping
BaseFromFileDefaulting(stage, project_config, fs) ==
    LET stage_config_file ==
            find_config(fs, Get(stage, "config").s,
                        Join(Get(project_config.libraries, "model_library").s,
                             Get(stage, "set").s))
        content == IF stage_config_file = PyNone THEN <<>>
                   ELSE ContentAt(fs, stage_config_file.s)
    IN  Returned(SetItem(SetItem(content, "logger", project_config.logger),
                         "resume_id", PyNone))

\* lines 135-144: the base config of a fresh stage
BaseFromFile(stage, project_config, fs) ==
    LET stage_config_file ==
            find_config(fs, Get(stage, "config").s,
                        Join(Get(project_config.libraries, "model_library").s,
                             Get(stage, "set").s))
    IN  IF stage_config_file = PyNone
        THEN Raised("TypeError")        \* open(None)
        ELSE Returned(SetItem(SetItem(ContentAt(fs, stage_config_file.s),
                                      "logger", project_config.logger),
                              "resume_id", PyNone))

\* lines 146-152: the base config of a resumed stage
BaseFromCheckpoint(resume_id, project_config, fs) ==
    LET ckpnt_path ==
            find_checkpoint(fs, resume_id.s,
                            Get(project_config.libraries, "artifact_library").s)
    IN  IF ckpnt_path = PyNone
        THEN Raised("AttributeError")   \* torch.load(None)
        ELSE IF FileAt(fs, ckpnt_path.s) = {}
        THEN Raised("FileNotFoundError")
        ELSE Returned(SetItem(ContentAt(fs, ckpnt_path.s), "checkpoint_path", ckpnt_path))

load_config(stage, resume_id, project_config, run_args, fs) ==
    LET base == IF resume_id = PyNone
                THEN BaseFromFile(stage, project_config, fs)
                ELSE BaseFromCheckpoint(resume_id, project_config, fs)
    IN  IF base.err # "" THEN base
        ELSE Returned(ApplyInference(MergeLayers(base.config, stage, project_config),
                                     run_args))

(***************************************************************************)
(* combo_config                                                            *)
(***************************************************************************)
\* Axis with an empty list taken as a value of its own
AxisKeepingEmpty(v) == IF v.t = "list" /\ v.l # <<>> THEN v.l ELSE <<v>>

\* line 184: a list is its own axis, anything else a one-element axis
Axis(v) == IF v.t = "list" THEN v.l ELSE <<v>>

\* itertools.product: every partial tuple extended by every element of the
\* next pool, tuples outermost
ExtendOne(x, pool) == [j \in 1..Len(pool) |-> Append(x, pool[j])]

\* ExtendAll with the pool outermost: the first key varies fastest
RECURSIVE ExtendAllPoolOutermost(_, _)
ExtendAllPoolOutermost(result, pool) ==
    IF pool = <<>> THEN <<>>
    ELSE [i \in 1..Len(result) |-> Append(result[i], Head(pool))]
             \o ExtendAllPoolOutermost(result, Tail(pool))

RECURSIVE ExtendAll(_, _)
ExtendAll(result, pool) ==
    IF result = <<>> THEN <<>>
    ELSE ExtendOne(Head(result), pool) \o ExtendAll(Tail(result), pool)

RECURSIVE ProductFrom(_, _)
ProductFrom(result, pools) ==
    IF pools = <<>> THEN result
    ELSE ProductFrom(ExtendAll(result, Head(pools)), Tail(pools))

product(pools) == ProductFrom(<< <<>> >>, pools)

\* dict(zip(keys, bundle))
ZipDict(keys, bundle) == [i \in 1..Len(keys) |-> Entry(keys[i], bundle[i])]

combo_config(config) ==
    IF config = <<>>
    THEN [err |-> "ValueError", list |-> <<>>]     \* keys, values = zip()
    ELSE LET keys == Keys(config)
             values == [i \in 1..Len(config) |-> Axis(config[i].v)]
             bundles == product(values)
         IN  [err |-> "",
              list |-> [b \in 1..Len(bundles) |-> ZipDict(keys, bundles[b])]]

(***************************************************************************)
(* dict_to_args                                                            *)
(***************************************************************************)
\* more_itertools.collapse of one node: a string is a leaf, a list yields
\* its collapsed elements, a dict iterates over its keys, anything else is
\* not iterable and is a leaf
RECURSIVE collapse(_), CollapseEach(_)
collapse(node) ==
    CASE node.t = "list" -> CollapseEach(node.l)
      [] node.t = "dict" -> [i \in 1..Len(node.m) |-> PyString(node.m[i].k)]
      [] OTHER -> <<node>>
CollapseEach(nodes) ==
    IF nodes = <<>> THEN <<>>
    ELSE collapse(Head(nodes)) \o CollapseEach(Tail(nodes))

\* " ".join(tokens)
RECURSIVE JoinWith(_, _)
JoinWith(sep, tokens) ==
    IF tokens = <<>> THEN ""
    ELSE IF Len(tokens) = 1 THEN tokens[1]
    ELSE tokens[1] \o sep \o JoinWith(sep, Tail(tokens))

\* lines 204-205: the collapsed list, every entry through str()
ArgTokens(config) ==
    LET pairs == [i \in 1..Len(config) |->
                     PyList(<<PyString("--" \o config[i].k), config[i].v>>)]
        collapsed_list == CollapseEach(pairs)
    IN  [i \in 1..Len(collapsed_list) |-> PyStr(collapsed_list[i])]

dict_to_args(config) == JoinWith(" ", ArgTokens(config))

(***************************************************************************)
(* submit_batch                                                            *)
(***************************************************************************)
NoDependency == [t |-> "none"]
AfterOk(handle) == [t |-> "afterok", id |-> handle]

\* SetDependency declaring the dependency whenever there is a handle
SetDependencyAnyHandle(project_config, id) ==
    IF id # PyNone THEN AfterOk(id) ELSE NoDependency

\* SetDependency never declaring one
SetDependencyNever(project_config, id) == NoDependency

\* lines 75-77: slurm.set_dependency(dict(afterok=running_id))
SetDependency(project_config, id) ==
    IF id # PyNone /\ project_config.serial THEN AfterOk(id) ELSE NoDependency

\* lines 79-84: the script the job runs
SlurmCommand(config, project_config) ==
    JoinWith("\n", project_config.custom_batch_setup)
        \o "\n ttbatch " \o dict_to_args(config)

\* the setup commands prepended whenever there are any
SlurmSetupIgnoringBatchSetup(config, project_config) ==
    IF Len(project_config.command_line_setup) > 0
    THEN JoinWith(";", project_config.command_line_setup \o <<"sbatch">>)
    ELSE "sbatch"

\* lines 87-94: the command that submits it
SlurmSetup(config, project_config) ==
    IF /\ Has(config, "batch_setup")
       /\ Truthy(Get(config, "batch_setup"))
       /\ Len(project_config.command_line_setup) > 0
    THEN JoinWith(";", project_config.command_line_setup \o <<"sbatch">>)
    ELSE "sbatch"

\* what submit_batch hands to slurm.sbatch, or the error raised before
submit_batch(config, project_config, id, fs) ==
    IF ~Has(config, "batch_config")
    THEN [err |-> "KeyError"]
    ELSE IF FileAt(fs, Get(config, "batch_config").s) = {}
    THEN [err |-> "FileNotFoundError"]
    ELSE [err |-> "",
          batch_config |-> ContentAt(fs, Get(config, "batch_config").s),
          dependency |-> SetDependency(project_config, id),
          command |-> SlurmCommand(config, project_config),
          sbatch_cmd |-> SlurmSetup(config, project_config)]

(***************************************************************************)
(* The inputs one stage is resolved from.                                  *)
(***************************************************************************)
IntList(from, n) == PyList([i \in 1..n |-> PyInt(from + i)])

LrChoices == {PyInt(5)} \cup {IntList(0, n) : n \in 0..MaxAxisLen}
HiddenChoices == {PyString("h"), IntList(10, MaxAxisLen), PyList(<<IntList(20, 2)>>)}

Opt == PyDict(<<Entry("a", PyInt(1)), Entry("b", PyInt(2))>>)

\* keys of the base config that later layers also write
Shadowed ==
    <<Entry("set", PyString("base_set")),
      Entry("model_library", PyString("/base_lib")),
      Entry("inference", PyBool(TRUE))>>

\* the mapping of the stage's YAML file, or a checkpoint's hyper_parameters
BaseChoices ==
    {<<Entry("lr", a)>> \o op \o <<Entry("hidden", h)>> \o sh :
        a \in LrChoices, op \in {<<>>, <<Entry("opt", Opt)>>},
        h \in HiddenChoices, sh \in {<<>>, Shadowed}}

OverrideChoices ==
    {<<>>,
     <<Entry("opt", PyDict(<<Entry("b", PyInt(3))>>))>>,
     <<Entry("lr", IntList(6, 2)), Entry("set", PyString("ov_set")),
       Entry("artifact_library", PyString("/ov_art"))>>,
     <<Entry("inference", PyBool(FALSE))>>}

Libraries ==
    <<Entry("model_library", PyString("/lib")),
      Entry("artifact_library", PyString("/art"))>>

ProjectConfigs ==
    {[libraries |-> Libraries, logger |-> PyString("wandb"), serial |-> sr,
      custom_batch_setup |-> <<"module load cuda">>, command_line_setup |-> cls] :
        sr \in BOOLEAN, cls \in {<<>>, <<"source env.sh">>}}

StageExtras ==
    {<<>>,
     <<Entry("artifact_library", PyString("/stage_art")),
       Entry("batch_config", PyString("batch.yaml")),
       Entry("batch_setup", PyBool(TRUE))>>}

StageChoices ==
    {<<Entry("config", PyString(c)), Entry("set", PyString("gnn"))>> \o ov \o rs \o ex :
        c \in {"train.yaml", "missing.yaml"},
        ov \in {<<>>} \cup {<<Entry("override", PyDict(o))>> : o \in OverrideChoices},
        rs \in {<<>>} \cup {<<Entry("resume_id", PyString(r))>> :
                                r \in {"run123", "run404", "run_empty"}},
        ex \in StageExtras}

\* argparse's Namespace: the attributes that are set
RunArgsChoices ==
    {[batch |-> b] : b \in BOOLEAN}
        \cup {[batch |-> b, inference |-> i] : b \in BOOLEAN, i \in BOOLEAN}

\* a model library holding train.yaml and an artifact library holding the
\* checkpoint of run123, both with the given mapping
LibraryFs(base) ==
    [dirs |-> <<Dir("", "lib"), Dir("/lib", "gnn"), Dir("/lib/gnn", "configs"),
                Dir("", "art"), Dir("/art", "wandb"), Dir("/art/wandb", "run_empty"),
                Dir("/art/wandb", "run123"), Dir("/art/wandb/run123", "checkpoints")>>,
     files |-> {File("/lib/gnn/configs", "train.yaml", base),
                File("/art/wandb/run123/checkpoints", "last.ckpt", base)}]

(***************************************************************************)
(* One stage resolved, expanded and serialized.                            *)
(***************************************************************************)
FcIdle ==
    /\ fc_pc = "idle"
    /\ fc_fs = [dirs |-> <<>>, files |-> {}]
    /\ fc_run_id = ""
    /\ fc_result = PyNone

PlIdle ==
    /\ pl_in = <<>>
    /\ pl_idx = 0
    /\ pl_state = <<>>
    /\ pl_config = <<>>
    /\ pl_runs = <<>>
    /\ pl_next = 0
    /\ running_id = PyNone
    /\ pl_error = ""
    /\ executed = <<>>
    /\ jobs = <<>>

\* the loggers configure_logging sets the level of
LoggerNames == {"root", "lightning.pytorch", "pytorch_lightning", "matplotlib", "PIL"}

\* the logging module before anything configured it
FreshLevels == [name \in LoggerNames |-> IF name = "root" THEN "WARNING" ELSE "NOTSET"]

LgIdle ==
    /\ lg_handlers = <<>>
    /\ lg_levels = FreshLevels
    /\ lg_fs = [dirs |-> {}, files |-> {}]
    /\ lg_calls = 0
    /\ lg_last = <<>>

InitConfig ==
    /\ cfg_pc = "start"
    /\ \E st \in StageChoices, pcfg \in ProjectConfigs, ra \in RunArgsChoices,
          base \in BaseChoices :
            cfg_in = [stage |-> st, project_config |-> pcfg, run_args |-> ra,
                      base |-> base, fs |-> LibraryFs(base)]
    /\ cfg_out = Raised("")
    /\ cfg_list = <<>>
    /\ cfg_args = <<>>
    /\ FcIdle
    /\ PlIdle
    /\ LgIdle

LoadConfig ==
    /\ cfg_pc = "start"
    /\ cfg_out' = load_config(cfg_in.stage, get_resume_id(cfg_in.stage),
                              cfg_in.project_config, cfg_in.run_args, cfg_in.fs)
    /\ cfg_pc' = IF cfg_out'.err = "" THEN "loaded" ELSE "failed"
    /\ UNCHANGED <<cfg_in, cfg_list, cfg_args, fc_vars, pl_vars, lg_vars>>

ComboConfig ==
    /\ cfg_pc = "loaded"
    /\ LET r == combo_config(cfg_out.config)
       IN  /\ cfg_list' = r.list
           /\ cfg_pc' = IF r.err = "" THEN "expanded" ELSE "failed"
    /\ UNCHANGED <<cfg_in, cfg_out, cfg_args, fc_vars, pl_vars, lg_vars>>

DictToArgs ==
    /\ cfg_pc = "expanded"
    /\ cfg_args' = [i \in 1..Len(cfg_list) |-> dict_to_args(cfg_list[i])]
    /\ cfg_pc' = "serialized"
    /\ UNCHANGED <<cfg_in, cfg_out, cfg_list, fc_vars, pl_vars, lg_vars>>

NextConfig == LoadConfig \/ ComboConfig \/ DictToArgs

SpecConfig == InitConfig /\ [][NextConfig]_vars

(***************************************************************************)
(* Properties of load_config, combo_config and dict_to_args (SpecConfig).  *)
(***************************************************************************)
Loaded == cfg_pc \in {"loaded", "expanded", "serialized"}
Expanded == cfg_pc \in {"expanded", "serialized"}

\* the four layers of the call, as given
BaseLayer == cfg_in.base
OverrideLayer ==
    IF Has(cfg_in.stage, "override") THEN Get(cfg_in.stage, "override").m ELSE <<>>
LibraryLayer == cfg_in.project_config.libraries
StageLayer == cfg_in.stage

InLayers(k) ==
    Has(BaseLayer, k) \/ Has(OverrideLayer, k) \/ Has(LibraryLayer, k) \/ Has(StageLayer, k)

LastLayerValue(k) ==
    IF Has(StageLayer, k) THEN Get(StageLayer, k)
    ELSE IF Has(LibraryLayer, k) THEN Get(LibraryLayer, k)
    ELSE IF Has(OverrideLayer, k) THEN Get(OverrideLayer, k)
    ELSE Get(BaseLayer, k)

LayerKeys ==
    {BaseLayer[i].k : i \in 1..Len(BaseLayer)}
        \cup {OverrideLayer[i].k : i \in 1..Len(OverrideLayer)}
        \cup {LibraryLayer[i].k : i \in 1..Len(LibraryLayer)}
        \cup {StageLayer[i].k : i \in 1..Len(StageLayer)}

OutsideLayers == {"inference", "logger", "resume_id", "checkpoint_path"}

\* C1: every key of the config load_config returns, other than inference,
\* logger, resume_id and checkpoint_path, is a key of one of the four layers
\* and holds the whole value of the last layer that contains it, in the order
\* base < stage override < project libraries < stage descriptor; and every
\* key of a layer is in the config.
C1_MergePrecedence ==
    Loaded =>
        /\ \A i \in 1..Len(cfg_out.config) :
              LET k == cfg_out.config[i].k
              IN  k \notin OutsideLayers =>
                      InLayers(k) /\ cfg_out.config[i].v = LastLayerValue(k)
        /\ \A k \in LayerKeys : Has(cfg_out.config, k)

\* a call in which base, override, libraries and stage all conflict
C1_Witness ==
    /\ Loaded
    /\ Has(BaseLayer, "set") /\ Has(OverrideLayer, "set")
    /\ Has(OverrideLayer, "artifact_library") /\ Has(StageLayer, "artifact_library")
    /\ Get(cfg_out.config, "set") = PyString("gnn")
    /\ Get(cfg_out.config, "artifact_library") = PyString("/stage_art")
    /\ Get(cfg_out.config, "model_library") = PyString("/lib")
    /\ Get(cfg_out.config, "lr") = IntList(6, 2)

RECURSIVE SeqProduct(_)
SeqProduct(ns) == IF ns = <<>> THEN 1 ELSE Head(ns) * SeqProduct(Tail(ns))

\* the axis of every key of the resolved config, and the number of tuples
\* in which the keys after the i-th take every combination
AxesOf(config) == [i \in 1..Len(config) |-> Axis(config[i].v)]
AxisLens(config) == [i \in 1..Len(config) |-> Len(AxesOf(config)[i])]
Stride(config, i) == SeqProduct(SubSeq(AxisLens(config), i + 1, Len(config)))

IsProductOf(list, config) ==
    /\ Len(list) = SeqProduct(AxisLens(config))
    /\ \A b \in 1..Len(list) :
          /\ Len(list[b]) = Len(config)
          /\ \A i \in 1..Len(config) :
                /\ list[b][i].k = config[i].k
                /\ list[b][i].v =
                      AxesOf(config)[i][(((b - 1) \div Stride(config, i))
                                            % AxisLens(config)[i]) + 1]

SweepExample == <<Entry("a", IntList(0, 2)), Entry("b", PyInt(3))>>

\* C5: combo_config returns the cartesian product of the per-key axes, one
\* RunConfig per tuple with the config's keys in insertion order, each key's
\* values in listed order and the last key varying fastest; {a:[1,2], b:3}
\* gives [{a:1,b:3},{a:2,b:3}].
C5_CartesianProduct ==
    /\ Expanded => IsProductOf(cfg_list, cfg_out.config)
    /\ combo_config(SweepExample) =
          [err |-> "",
           list |-> << <<Entry("a", PyInt(1)), Entry("b", PyInt(3))>>,
                       <<Entry("a", PyInt(2)), Entry("b", PyInt(3))>> >>]

\* two swept keys: four RunConfigs, the later key varying fastest
C5_Witness ==
    /\ Expanded
    /\ Get(cfg_out.config, "lr") = IntList(0, 2)
    /\ Get(cfg_out.config, "hidden") = IntList(10, MaxAxisLen)
    /\ Len(cfg_list) = 2 * MaxAxisLen
    /\ Get(cfg_list[2], "lr") = PyInt(1)
    /\ Get(cfg_list[2], "hidden") = PyInt(12)

HasEmptyAxis(config) == \E i \in 1..Len(config) : config[i].v = PyList(<<>>)

\* C6: a config in which some key has an empty list expands to no RunConfig
\* at all, without an error.
C6_EmptyAxis ==
    /\ (Loaded /\ HasEmptyAxis(cfg_out.config)) =>
          combo_config(cfg_out.config) = [err |-> "", list |-> <<>>]
    /\ (cfg_pc # "start" /\ cfg_out.err = "" /\ HasEmptyAxis(cfg_out.config)) =>
          (cfg_pc # "failed" /\ cfg_list = <<>>)
    /\ combo_config(<<Entry("a", PyList(<<>>))>>) = [err |-> "", list |-> <<>>]

\* an empty axis beside a swept key
C6_Witness ==
    /\ Expanded
    /\ Get(cfg_out.config, "lr") = PyList(<<>>)
    /\ Get(cfg_out.config, "hidden") = IntList(10, MaxAxisLen)
    /\ cfg_list = <<>>

\* str() of any value, containers included
RECURSIVE PyRepr(_)
PyRepr(v) ==
    CASE v.t = "str" -> "'" \o v.s \o "'"
      [] v.t = "list" ->
            "[" \o JoinWith(", ", [i \in 1..Len(v.l) |-> PyRepr(v.l[i])]) \o "]"
      [] v.t = "dict" ->
            "{" \o JoinWith(", ", [i \in 1..Len(v.m) |->
                                      "'" \o v.m[i].k \o "': " \o PyRepr(v.m[i].v)]) \o "}"
      [] OTHER -> PyStr(v)

ValueToken(v) == IF v.t \in {"list", "dict"} THEN PyRepr(v) ELSE PyStr(v)

\* --key, then one token per element of a list, one token for anything else
FlagTokens(e) ==
    <<"--" \o e.k>> \o
        (IF e.v.t = "list" THEN [j \in 1..Len(e.v.l) |-> ValueToken(e.v.l[j])]
         ELSE <<ValueToken(e.v)>>)

RECURSIVE AllFlagTokens(_)
AllFlagTokens(config) ==
    IF config = <<>> THEN <<>>
    ELSE FlagTokens(Head(config)) \o AllFlagTokens(Tail(config))

\* C7: every RunConfig that load_config and combo_config produce serializes,
\* in key order, to --key followed by its value: one token for a scalar, one
\* token per element for a list.
C7_FlagThenValue ==
    cfg_pc = "serialized" =>
        \A i \in 1..Len(cfg_list) :
            cfg_args[i] = JoinWith(" ", AllFlagTokens(cfg_list[i]))

\* The serialization is as described for the RunConfigs that hold no mapping.
FlagThenValueWithoutDict ==
    cfg_pc = "serialized" =>
        \A i \in 1..Len(cfg_list) :
            (\A j \in 1..Len(cfg_list[i]) : cfg_list[i][j].v.t # "dict") =>
                cfg_args[i] = JoinWith(" ", AllFlagTokens(cfg_list[i]))

\* what the four layers left under the key inference
LayersLeftInference == InLayers("inference")

\* C8: inference is true when run_args.inference is true, false when it is
\* given as false and run_args.batch is false, and otherwise exactly what the
\* four layers left, absence included.
C8_InferencePolicy ==
    Loaded =>
        LET ra == cfg_in.run_args
            given == "inference" \in DOMAIN ra
        IN  /\ (given /\ ra.inference) =>
                  (Has(cfg_out.config, "inference")
                     /\ Get(cfg_out.config, "inference") = PyBool(TRUE))
            /\ (given /\ ~ra.inference /\ ~ra.batch) =>
                  (Has(cfg_out.config, "inference")
                     /\ Get(cfg_out.config, "inference") = PyBool(FALSE))
            /\ (~given \/ (~ra.inference /\ ra.batch)) =>
                  /\ Has(cfg_out.config, "inference") <=> LayersLeftInference
                  /\ LayersLeftInference =>
                        Get(cfg_out.config, "inference") = LastLayerValue("inference")

\* a batch submission with inference given as false keeps the layers' true
C8_Witness ==
    /\ Loaded
    /\ "inference" \in DOMAIN cfg_in.run_args
    /\ ~cfg_in.run_args.inference
    /\ cfg_in.run_args.batch
    /\ LayersLeftInference
    /\ LastLayerValue("inference") = PyBool(TRUE)
    /\ Get(cfg_out.config, "inference") = PyBool(TRUE)

\* the base source of the call cannot be located
NoConfigFile ==
    /\ get_resume_id(cfg_in.stage) = PyNone
    /\ \A f \in cfg_in.fs.files : f.name # Get(cfg_in.stage, "config").s
NoRunDirectory ==
    /\ get_resume_id(cfg_in.stage) # PyNone
    /\ \A i \in 1..Len(cfg_in.fs.dirs) :
          cfg_in.fs.dirs[i].name # get_resume_id(cfg_in.stage).s

\* C10: when the base source cannot be located load_config returns no
\* config and fails with the documented error kind: ConfigNotFound for a
\* missing config file, CheckpointNotFound for a missing run directory.
C10_DocumentedErrors ==
    cfg_pc # "start" =>
        /\ NoConfigFile => (cfg_pc = "failed" /\ cfg_out.err = "ConfigNotFound")
        /\ NoRunDirectory => (cfg_pc = "failed" /\ cfg_out.err = "CheckpointNotFound")

\* C10: the part the code keeps: no config is returned.
C10_NoConfigReturned ==
    (cfg_pc # "start" /\ (NoConfigFile \/ NoRunDirectory)) =>
        (cfg_pc = "failed" /\ cfg_out.err # "" /\ cfg_out.config = <<>>)

(***************************************************************************)
(* find_checkpoint over an artifact library that runs have written to.     *)
(***************************************************************************)
ArtifactBase == "/artifacts"
RunNames == {"run123", "a"}

CfgIdle ==
    /\ cfg_pc = "idle"
    /\ cfg_in = <<>>
    /\ cfg_out = Raised("")
    /\ cfg_list = <<>>
    /\ cfg_args = <<>>

InitFind ==
    /\ fc_pc = "setup"
    /\ fc_fs = [dirs |-> <<Dir("", "artifacts")>>, files |-> {}]
    /\ fc_run_id = "run123"
    /\ fc_result = PyNone
    /\ CfgIdle
    /\ PlIdle
    /\ LgIdle

\* a directory appears somewhere under the library; scandir reports the
\* entries of a directory in the order of creation
Mkdir ==
    /\ fc_pc = "setup"
    /\ Len(fc_fs.dirs) <= MaxDirs
    /\ \E i \in 1..Len(fc_fs.dirs), name \in RunNames :
          /\ ~IsDir(fc_fs, Join(PathOf(fc_fs.dirs[i]), name))
          /\ fc_fs' = [fc_fs EXCEPT !.dirs = Append(@, Dir(PathOf(fc_fs.dirs[i]), name))]
    /\ UNCHANGED <<fc_pc, fc_run_id, fc_result, cfg_vars, pl_vars, lg_vars>>

\* a run writes checkpoints/last.ckpt into its directory
SaveCheckpoint ==
    /\ fc_pc = "setup"
    /\ Len(fc_fs.dirs) <= MaxDirs
    /\ \E i \in 2..Len(fc_fs.dirs) :
          LET run_dir == PathOf(fc_fs.dirs[i])
          IN  /\ ~IsDir(fc_fs, Join(run_dir, "checkpoints"))
              /\ fc_fs' = [dirs |-> Append(fc_fs.dirs, Dir(run_dir, "checkpoints")),
                           files |-> fc_fs.files \cup
                                       {File(Join(run_dir, "checkpoints"), "last.ckpt", <<>>)}]
    /\ UNCHANGED <<fc_pc, fc_run_id, fc_result, cfg_vars, pl_vars, lg_vars>>

FindCheckpoint ==
    /\ fc_pc = "setup"
    /\ fc_result' = find_checkpoint(fc_fs, fc_run_id, ArtifactBase)
    /\ fc_pc' = "done"
    /\ UNCHANGED <<fc_fs, fc_run_id, cfg_vars, pl_vars, lg_vars>>

NextFind == Mkdir \/ SaveCheckpoint \/ FindCheckpoint

SpecFind == InitFind /\ [][NextFind]_vars

\* the index in fc_fs.dirs of the directory at a path
DirIndex(path) == CHOOSE i \in 1..Len(fc_fs.dirs) : PathOf(fc_fs.dirs[i]) = path

\* the directories from the library down to the one that lists entry i, as
\* indices of fc_fs.dirs
RECURSIVE ListedFrom(_)
ListedFrom(i) ==
    IF fc_fs.dirs[i].parent = ArtifactBase THEN <<>>
    ELSE LET p == DirIndex(fc_fs.dirs[i].parent) IN Append(ListedFrom(p), p)

\* top-down order of two such chains: a directory comes before everything
\* below it, and siblings come in the order their parent lists them
RECURSIVE WalkedBefore(_, _)
WalkedBefore(c, d) ==
    IF c = <<>> THEN TRUE
    ELSE IF d = <<>> THEN FALSE
    ELSE IF Head(c) = Head(d) THEN WalkedBefore(Tail(c), Tail(d))
    ELSE Head(c) < Head(d)

\* the directories under the library that are named run_id
Matches == {i \in 2..Len(fc_fs.dirs) : fc_fs.dirs[i].name = fc_run_id}

\* C9: find_checkpoint returns <match>/checkpoints/last.ckpt for the
\* directory named run_id, at any depth under base_path, that the top-down
\* walk lists first, whether or not that file exists, and not-found when no
\* directory under base_path has that name.
C9_FirstMatch ==
    fc_pc = "done" =>
        IF Matches = {} THEN fc_result = PyNone
        ELSE \E i \in Matches :
                /\ fc_result =
                      PyString(PathOf(fc_fs.dirs[i]) \o "/checkpoints/last.ckpt")
                /\ \A j \in Matches : WalkedBefore(ListedFrom(i), ListedFrom(j))

\* /artifacts/run123 holds no checkpoint file, a deeper run123 does, and the
\* literal path under /artifacts/run123 is returned
C9_Witness ==
    /\ fc_pc = "done"
    /\ IsDir(fc_fs, "/artifacts/run123")
    /\ IsDir(fc_fs, "/artifacts/a/run123")
    /\ FileAt(fc_fs, "/artifacts/run123/checkpoints/last.ckpt") = {}
    /\ FileAt(fc_fs, "/artifacts/a/run123/checkpoints/last.ckpt") # {}
    /\ fc_result = PyString("/artifacts/run123/checkpoints/last.ckpt")

\* a match below the first level only
C9_WitnessNested ==
    /\ fc_pc = "done"
    /\ ~IsDir(fc_fs, "/artifacts/run123")
    /\ fc_result = PyString("/artifacts/a/a/run123/checkpoints/last.ckpt")

(***************************************************************************)
(* The pipeline: the orchestrator walks the stage list, the scheduler runs *)
(* the submitted jobs.                                                     *)
(***************************************************************************)
BatchConfigPath == "/proj/batch.yaml"

PipeStage(config_name, extra) ==
    <<Entry("config", PyString(config_name)), Entry("set", PyString("gnn")),
      Entry("batch_config", PyString(BatchConfigPath))>> \o extra

\* a stage swept over two values, a stage of one run, a stage with an empty
\* axis, a stage whose config file is not in the library
PipeStages ==
    {PipeStage("sweep.yaml", <<Entry("batch_setup", PyBool(TRUE))>>),
     PipeStage("single.yaml", <<>>),
     PipeStage("empty.yaml", <<>>),
     PipeStage("missing.yaml", <<>>)}

PipeFs ==
    [dirs |-> <<Dir("", "lib"), Dir("/lib", "gnn"), Dir("", "art"), Dir("", "proj")>>,
     files |-> {File("/lib/gnn", "sweep.yaml", <<Entry("lr", IntList(0, 2))>>),
                File("/lib/gnn", "single.yaml", <<Entry("lr", PyInt(5))>>),
                File("/lib/gnn", "empty.yaml", <<Entry("lr", PyList(<<>>))>>),
                File("/proj", "batch.yaml", <<Entry("partition", PyString("gpu"))>>)}]

StageLists == UNION {[1..n -> PipeStages] : n \in 1..MaxStages}

Init ==
    /\ \E sl \in StageLists, pcfg \in ProjectConfigs, b \in BOOLEAN :
          /\ pl_in = [stage_list |-> sl, project_config |-> pcfg,
                      run_args |-> [batch |-> b], fs |-> PipeFs]
          /\ pl_state = [i \in 1..Len(sl) |-> "Pending"]
    /\ pl_idx = 1
    /\ pl_config = <<>>
    /\ pl_runs = <<>>
    /\ pl_next = 1
    /\ running_id = PyNone
    /\ pl_error = ""
    /\ executed = <<>>
    /\ jobs = <<>>
    /\ CfgIdle
    /\ FcIdle
    /\ LgIdle

Walking == pl_error = "" /\ pl_idx <= Len(pl_in.stage_list)
AtStage(st) == Walking /\ pl_state[pl_idx] = st

\* an error leaves the orchestrator where it is
Abort(kind) ==
    /\ pl_error' = kind
    /\ UNCHANGED <<pl_in, pl_idx, pl_state, pl_config, pl_runs, pl_next,
                   running_id, executed, jobs>>

\* ConfigResolver.resolve of the stage at pl_idx
Resolve ==
    /\ AtStage("Pending")
    /\ LET stage == pl_in.stage_list[pl_idx]
           r == load_config(stage, get_resume_id(stage), pl_in.project_config,
                            pl_in.run_args, pl_in.fs)
       IN  IF r.err # "" THEN Abort(r.err)
           ELSE /\ pl_config' = r.config
                /\ pl_state' = [pl_state EXCEPT ![pl_idx] = "Resolved"]
                /\ UNCHANGED <<pl_in, pl_idx, pl_runs, pl_next, running_id,
                               pl_error, executed, jobs>>
    /\ UNCHANGED <<cfg_vars, fc_vars, lg_vars>>

\* SweepExpander.expand
Expand ==
    /\ AtStage("Resolved")
    /\ LET r == combo_config(pl_config)
       IN  IF r.err # "" THEN Abort(r.err)
           ELSE /\ pl_runs' = r.list
                /\ pl_next' = 1
                /\ pl_state' = [pl_state EXCEPT ![pl_idx] = "Expanded"]
                /\ UNCHANGED <<pl_in, pl_idx, pl_config, running_id, pl_error,
                               executed, jobs>>
    /\ UNCHANGED <<cfg_vars, fc_vars, lg_vars>>

\* lines 97-99: the job id slurm.sbatch reports for the submission, which
\* submit_batch returns as it is; the scheduler numbers its jobs in the
\* order it accepted them
SchedulerHandle(accepted) == PyInt(Len(accepted) + 1)

\* batch mode: the next RunConfig goes to JobSubmitter; the scheduler
\* accepts it and assigns a handle, or rejects it
SubmitRun ==
    /\ AtStage("Expanded")
    /\ pl_in.run_args.batch
    /\ pl_next <= Len(pl_runs)
    /\ LET call == submit_batch(pl_runs[pl_next], pl_in.project_config,
                                running_id, pl_in.fs)
       IN  IF call.err # "" THEN Abort(call.err)
           ELSE \/ /\ Len(jobs) < MaxJobs
                   /\ jobs' = Append(jobs, [stage |-> pl_idx, run |-> pl_next,
                                            config |-> pl_runs[pl_next],
                                            handle |-> SchedulerHandle(jobs),
                                            previous |-> running_id,
                                            dependency |-> call.dependency,
                                            command |-> call.command,
                                            sbatch_cmd |-> call.sbatch_cmd,
                                            state |-> "PENDING"])
                   /\ running_id' = SchedulerHandle(jobs)
                   /\ pl_next' = pl_next + 1
                   /\ UNCHANGED <<pl_in, pl_idx, pl_state, pl_config, pl_runs,
                                  pl_error, executed>>
                \/ Abort("JobSubmissionError")
    /\ UNCHANGED <<cfg_vars, fc_vars, lg_vars>>

\* local mode: the next RunConfig is handed to the trainer, which returns
\* or fails
ExecuteRun ==
    /\ AtStage("Expanded")
    /\ ~pl_in.run_args.batch
    /\ pl_next <= Len(pl_runs)
    /\ \/ /\ executed' = Append(executed, [stage |-> pl_idx, run |-> pl_next])
          /\ pl_next' = pl_next + 1
          /\ UNCHANGED <<pl_in, pl_idx, pl_state, pl_config, pl_runs, running_id,
                         pl_error, jobs>>
       \/ Abort("TrainingError")
    /\ UNCHANGED <<cfg_vars, fc_vars, lg_vars>>

\* every RunConfig of the stage has been handed on
StageHandedOn ==
    /\ AtStage("Expanded")
    /\ pl_next > Len(pl_runs)
    /\ pl_state' = [pl_state EXCEPT ![pl_idx] =
                        IF pl_in.run_args.batch THEN "Submitted" ELSE "Executed"]
    /\ UNCHANGED <<pl_in, pl_idx, pl_config, pl_runs, pl_next, running_id,
                   pl_error, executed, jobs>>
    /\ UNCHANGED <<cfg_vars, fc_vars, lg_vars>>

\* FinishStage taken as soon as the stage is expanded
FinishStageFromExpanded ==
    /\ AtStage("Expanded") \/ AtStage("Submitted") \/ AtStage("Executed")
    /\ pl_state' = [pl_state EXCEPT ![pl_idx] = "Done"]
    /\ pl_idx' = pl_idx + 1
    /\ pl_config' = <<>>
    /\ pl_runs' = <<>>
    /\ pl_next' = 1
    /\ UNCHANGED <<pl_in, running_id, pl_error, executed, jobs>>
    /\ UNCHANGED <<cfg_vars, fc_vars, lg_vars>>

\* the stage is done and the walk moves to the next one
FinishStage ==
    /\ AtStage("Submitted") \/ AtStage("Executed")
    /\ pl_state' = [pl_state EXCEPT ![pl_idx] = "Done"]
    /\ pl_idx' = pl_idx + 1
    /\ pl_config' = <<>>
    /\ pl_runs' = <<>>
    /\ pl_next' = 1
    /\ UNCHANGED <<pl_in, running_id, pl_error, executed, jobs>>
    /\ UNCHANGED <<cfg_vars, fc_vars, lg_vars>>

\* the scheduler starts a pending job whose afterok dependency, if any,
\* has completed successfully
JobStart ==
    /\ \E j \in 1..Len(jobs) :
          /\ jobs[j].state = "PENDING"
          /\ \/ jobs[j].dependency = NoDependency
             \/ /\ jobs[j].dependency # NoDependency
                /\ jobs[jobs[j].dependency.id.n].state = "COMPLETED"
          /\ jobs' = [jobs EXCEPT ![j].state = "RUNNING"]
    /\ UNCHANGED <<pl_in, pl_idx, pl_state, pl_config, pl_runs, pl_next,
                   running_id, pl_error, executed>>
    /\ UNCHANGED <<cfg_vars, fc_vars, lg_vars>>

\* a running job ends, successfully or not
JobEnd ==
    /\ \E j \in 1..Len(jobs), outcome \in {"COMPLETED", "FAILED"} :
          /\ jobs[j].state = "RUNNING"
          /\ jobs' = [jobs EXCEPT ![j].state = outcome]
    /\ UNCHANGED <<pl_in, pl_idx, pl_state, pl_config, pl_runs, pl_next,
                   running_id, pl_error, executed>>
    /\ UNCHANGED <<cfg_vars, fc_vars, lg_vars>>

Next ==
    \/ Resolve
    \/ Expand
    \/ SubmitRun
    \/ ExecuteRun
    \/ StageHandedOn
    \/ FinishStage
    \/ JobStart
    \/ JobEnd

Spec == Init /\ [][Next]_vars

(***************************************************************************)
(* configure_logging, called any number of times on the root logger.       *)
(* A path is kept as the sequence of its components: "" is <<>>,           *)
(* "logs/run.log" is <<"logs", "run.log">>.                                *)
(***************************************************************************)
PyPath(parts) == [t |-> "path", parts |-> parts]

\* line 56: `if log_dir:`
LogDirGiven(log_dir) ==
    IF log_dir.t = "path" THEN log_dir.parts # <<>> ELSE Truthy(log_dir)

\* line 36
LogLevel(verbose) == IF Truthy(verbose) THEN "DEBUG" ELSE "WARNING"

\* lines 47-52: a new StreamHandler on stdout; `call` tells the handler
\* objects of different calls apart
ConsoleHandler(call, log_level) ==
    [kind |-> "console", call |-> call, level |-> log_level, target |-> <<"stdout">>]

\* lines 64-69: a new FileHandler on log_dir
FileHandler(call, log_dir) ==
    [kind |-> "file", call |-> call, level |-> "INFO", target |-> log_dir.parts]

\* a handler some other code put on the root logger before the first call
OtherHandler(name) ==
    [kind |-> "other", call |-> 0, level |-> "NOTSET", target |-> <<name>>]

\* Logger.removeHandler: the handler leaves the list if it is in it
RemoveHandler(hs, h) ==
    IF \E i \in 1..Len(hs) : hs[i] = h
    THEN LET at == CHOOSE i \in 1..Len(hs) :
                       hs[i] = h /\ \A k \in 1..(i - 1) : hs[k] # h
         IN  SubSeq(hs, 1, at - 1) \o SubSeq(hs, at + 1, Len(hs))
    ELSE hs

\* Logger.addHandler: the handler joins the list unless it is in it
AddHandler(hs, h) ==
    IF \E i \in 1..Len(hs) : hs[i] = h THEN hs ELSE Append(hs, h)

\* the removal loop run over the list itself, not over a copy of it
RECURSIVE RemoveLive(_, _)
RemoveLive(hs, i) ==
    IF i > Len(hs) THEN hs ELSE RemoveLive(RemoveHandler(hs, hs[i]), i + 1)

RemoveHandlersLive(hs) == RemoveLive(hs, 1)

\* lines 43-44: removeHandler for every handler of a copy of the list
RECURSIVE RemoveEach(_, _)
RemoveEach(copy, hs) ==
    IF copy = <<>> THEN hs
    ELSE RemoveEach(Tail(copy), RemoveHandler(hs, Head(copy)))

RemoveHandlers(hs) == RemoveEach(hs, hs)

\* os.path.dirname
dirname(parts) ==
    IF parts = <<>> THEN <<>> ELSE SubSeq(parts, 1, Len(parts) - 1)

\* os.path.exists
Exists(fs, parts) == parts \in fs.dirs \cup fs.files

\* lines 56-74: the file handler, if log_dir is given and nothing raises
\* on the way; mk_ok and open_ok are whether the system lets makedirs and
\* open go through. Every Exception is caught and leaves the console
\* handler alone.
FileLogging(log_dir, call, hs, fs, mk_ok, open_ok) ==
    IF ~LogDirGiven(log_dir)
    THEN [handlers |-> hs, fs |-> fs, opened |-> FALSE]
    ELSE IF log_dir.t # "path"
    THEN \* os.path.dirname raises TypeError
         [handlers |-> hs, fs |-> fs, opened |-> FALSE]
    ELSE LET log_parent_dir == dirname(log_dir.parts)
             needed == log_parent_dir # <<>> /\ ~Exists(fs, log_parent_dir)
             fs1 == IF needed /\ mk_ok
                    THEN [fs EXCEPT !.dirs = @ \cup {log_parent_dir}]
                    ELSE fs
             opens == /\ needed => mk_ok
                      /\ open_ok
                      /\ log_dir.parts \notin fs1.dirs
                      /\ log_parent_dir # <<>> => log_parent_dir \in fs1.dirs
         IN  IF opens
             THEN [handlers |-> AddHandler(hs, FileHandler(call, log_dir)),
                   fs |-> [fs1 EXCEPT !.files = @ \cup {log_dir.parts}],
                   opened |-> TRUE]
             ELSE [handlers |-> hs, fs |-> fs1, opened |-> FALSE]

\* None, "", "run.log", "logs/run.log", "logs", and a value that is no path
LogDirChoices ==
    {PyNone, PyPath(<<>>), PyPath(<<"run.log">>), PyPath(<<"logs", "run.log">>),
     PyPath(<<"logs">>), PyInt(7)}

VerboseChoices == {PyBool(FALSE), PyBool(TRUE)}

InitLogging ==
    /\ lg_handlers \in {<<>>, <<OtherHandler("a")>>,
                         <<OtherHandler("a"), OtherHandler("b")>>}
    /\ lg_levels = FreshLevels
    /\ \E ds \in SUBSET {<<"logs">>} : lg_fs = [dirs |-> ds, files |-> {}]
    /\ lg_calls = 0
    /\ lg_last = <<>>
    /\ CfgIdle
    /\ FcIdle
    /\ PlIdle

\* one call of configure_logging(log_dir, verbose), lines 36-89
ConfigureLogging ==
    /\ lg_calls < MaxCalls
    /\ \E log_dir \in LogDirChoices, verbose \in VerboseChoices,
          mk_ok \in BOOLEAN, open_ok \in BOOLEAN :
          LET call == lg_calls + 1
              log_level == LogLevel(verbose)
              console == AddHandler(RemoveHandlers(lg_handlers),
                                    ConsoleHandler(call, log_level))
              r == FileLogging(log_dir, call, console, lg_fs, mk_ok, open_ok)
          IN  /\ lg_handlers' = r.handlers
              /\ lg_fs' = r.fs
              /\ lg_levels' = [name \in LoggerNames |->
                                  IF name = "root" THEN log_level ELSE "WARNING"]
              /\ lg_calls' = call
              /\ lg_last' = [log_dir |-> log_dir, verbose |-> verbose,
                             opened |-> r.opened]
    /\ UNCHANGED <<cfg_vars, fc_vars, pl_vars>>

NextLogging == ConfigureLogging

SpecLogging == InitLogging /\ [][NextLogging]_vars

(***************************************************************************)
(* Properties of the pipeline (Spec).                                      *)
(***************************************************************************)
Serial == pl_in.project_config.serial
StageCount == Len(pl_in.stage_list)

\* C2: a submitted job carries an afterok dependency on the previous handle
\* if and only if that handle is not null and project_config serial is
\* true; otherwise it carries no dependency, whatever the handle is.
C2_DependencyPolicy ==
    \A j \in 1..Len(jobs) :
        /\ jobs[j].dependency # NoDependency
              <=> (jobs[j].previous # PyNone /\ Serial)
        /\ jobs[j].dependency # NoDependency
              => jobs[j].dependency = AfterOk(jobs[j].previous)

\* serial, previous handle 1: the job depends afterok on 1
C2_Witness ==
    /\ Serial
    /\ \E j \in 1..Len(jobs) :
          /\ jobs[j].previous = PyInt(1)
          /\ jobs[j].dependency = AfterOk(PyInt(1))

\* not serial, a previous handle, no dependency
C2_WitnessIndependent ==
    /\ ~Serial
    /\ \E j \in 1..Len(jobs) :
          /\ jobs[j].previous # PyNone
          /\ jobs[j].dependency = NoDependency

\* no config file of stage i's name is in the library and it resumes nothing
Unresolvable(i) ==
    /\ get_resume_id(pl_in.stage_list[i]) = PyNone
    /\ \A f \in pl_in.fs.files : f.name # Get(pl_in.stage_list[i], "config").s

\* nothing of stage j has happened
Untouched(j) ==
    /\ pl_state[j] = "Pending"
    /\ \A k \in 1..Len(jobs) : jobs[k].stage # j
    /\ \A k \in 1..Len(executed) : executed[k].stage # j

\* C3: once resolving or submitting a stage has raised an error, nothing of
\* a later stage ever happens: the later stages stay pending, with no job
\* and no execution, and the orchestrator takes no further step; a stage
\* whose config file is missing is such a stage.
C3_FailFast ==
    /\ [](\A i \in 1..StageCount :
            (Unresolvable(i) \/ (pl_error # "" /\ pl_idx = i)) =>
                \A j \in (i + 1)..StageCount : Untouched(j))
    /\ [][pl_error # "" =>
            /\ UNCHANGED <<pl_idx, pl_state, pl_runs, pl_next, running_id,
                           pl_error, executed>>
            /\ Len(jobs') = Len(jobs)]_vars

\* stage 2 of 3 has no config file: stage 1 was submitted, stage 3 never is
C3_Witness ==
    /\ StageCount = 3
    /\ pl_in.run_args.batch
    /\ Unresolvable(2)
    /\ pl_error = "TypeError"
    /\ pl_idx = 2
    /\ pl_state = <<"Done", "Pending", "Pending">>
    /\ Get(pl_in.stage_list[3], "config") = PyString("sweep.yaml")
    /\ \E k \in 1..Len(jobs) : jobs[k].stage = 1 /\ jobs[k].state = "COMPLETED"

\* job j waits, directly or through the jobs it waits for, for job target
RECURSIVE WaitsFor(_, _)
WaitsFor(j, target) ==
    /\ jobs[j].dependency # NoDependency
    /\ \/ jobs[j].dependency.id.n = target
       \/ WaitsFor(jobs[j].dependency.id.n, target)

Started(j) == jobs[j].state \in {"RUNNING", "COMPLETED", "FAILED"}

\* C4: in serial mode every job of stage n+1 waits (afterok, through the
\* chain of handles) for every job of stage n, and none has started unless
\* every job of stage n has completed successfully.
C4_SerialStages ==
    Serial =>
        \A j1 \in 1..Len(jobs), j2 \in 1..Len(jobs) :
            jobs[j2].stage = jobs[j1].stage + 1 =>
                /\ WaitsFor(j2, j1)
                /\ Started(j2) => jobs[j1].state = "COMPLETED"

\* a swept stage of two jobs, both completed, and the next stage's job running
C4_Witness ==
    /\ Serial
    /\ Len(jobs) >= 3
    /\ jobs[1].stage = 1 /\ jobs[2].stage = 1 /\ jobs[3].stage = 2
    /\ jobs[1].state = "COMPLETED" /\ jobs[2].state = "COMPLETED"
    /\ jobs[3].dependency = AfterOk(PyInt(2))
    /\ jobs[3].state = "RUNNING"

\* how far along a stage is
Rank(st) ==
    CASE st = "Pending" -> 0
      [] st = "Resolved" -> 1
      [] st = "Expanded" -> 2
      [] st \in {"Submitted", "Executed"} -> 3
      [] st = "Done" -> 4

\* C11: the stages are processed in list order and each moves only forward,
\* one state at a time, through Pending, Resolved, Expanded, Submitted (batch
\* mode) or Executed (local mode), Done: no stage goes back, skips a state or
\* repeats a step, nothing moves after an error, and stage i+1 leaves
\* Pending only after stage i is Done.
C11_StageOrder ==
    /\ [](\A i \in 1..StageCount :
            /\ pl_state[i] \in {"Pending", "Resolved", "Expanded", "Submitted",
                                "Executed", "Done"}
            /\ pl_state[i] = "Submitted" => pl_in.run_args.batch
            /\ pl_state[i] = "Executed" => ~pl_in.run_args.batch
            /\ (i > 1 /\ pl_state[i] # "Pending") => pl_state[i - 1] = "Done")
    /\ [][\A i \in 1..StageCount :
            pl_state'[i] # pl_state[i] =>
                /\ Rank(pl_state'[i]) = Rank(pl_state[i]) + 1
                /\ pl_error = ""
                /\ i = pl_idx
                /\ \A k \in 1..StageCount : k # i => pl_state'[k] = pl_state[k]]_vars

\* three stages: the first done, the second submitting its runs, the third
\* still pending
C11_Witness ==
    /\ StageCount = 3
    /\ pl_state = <<"Done", "Expanded", "Pending">>
    /\ pl_in.run_args.batch
    /\ \E k \in 1..Len(jobs) : jobs[k].stage = 2

\* a whole list walked in local mode
C11_WitnessAllDone ==
    /\ StageCount = 3
    /\ pl_state = <<"Done", "Done", "Done">>
    /\ ~pl_in.run_args.batch
    /\ Len(executed) >= 3

\* whether submit_batch chains the setup commands for this run config
Chained(config, project_config) ==
    /\ Has(config, "batch_setup")
    /\ Truthy(Get(config, "batch_setup"))
    /\ project_config.command_line_setup # <<>>

\* run configs with batch_setup absent, false, zero, empty, true, a string
SetupConfigs ==
    {<<Entry("lr", PyInt(1))>>} \cup
    {<<Entry("lr", PyInt(1)), Entry("batch_setup", v)>> :
        v \in {PyBool(FALSE), PyInt(0), PyString(""), PyNone, PyBool(TRUE),
               PyString("no"), PyInt(2)}}

\* project configs with no, one and two setup commands
SetupProjects ==
    {[command_line_setup |-> cls] :
        cls \in {<<>>, <<"source env.sh">>, <<"module purge", "source env.sh">>}}

\* the submission command made of these setup commands, sbatch last
ChainOf(cls) ==
    CASE cls = <<"source env.sh">> -> "source env.sh;sbatch"
      [] cls = <<"module purge", "source env.sh">> -> "module purge;source env.sh;sbatch"

\* C12: submit_batch hands the scheduler the command_line_setup commands
\* joined with ";" and ending in sbatch exactly when the run config has a
\* truthy batch_setup and command_line_setup is not empty, and plain sbatch
\* in every other case; either way the handle it returns, which the
\* orchestrator carries on, is the one the scheduler gave this job.
C12_SetupChaining ==
    /\ [](\A j \in 1..Len(jobs) :
            /\ Chained(jobs[j].config, pl_in.project_config)
                  => jobs[j].sbatch_cmd
                       = ChainOf(pl_in.project_config.command_line_setup)
            /\ ~Chained(jobs[j].config, pl_in.project_config)
                  => jobs[j].sbatch_cmd = "sbatch"
            /\ jobs[j].handle = PyInt(j))
    /\ [](\A c \in SetupConfigs, p \in SetupProjects :
            SlurmSetup(c, p) = IF Chained(c, p)
                               THEN ChainOf(p.command_line_setup)
                               ELSE "sbatch")
    /\ [][Len(jobs') > Len(jobs) =>
            /\ running_id' = jobs'[Len(jobs')].handle
            /\ \A j \in 1..Len(jobs) : jobs[j].handle # running_id']_vars

\* a chained submission after a plain one, each with its own handle: the
\* first stage has no batch_setup, the second has it, and the project has
\* a setup command
C12_Witness ==
    /\ Len(jobs) >= 2
    /\ ~Has(jobs[1].config, "batch_setup")
    /\ jobs[1].sbatch_cmd = "sbatch"
    /\ Has(jobs[2].config, "batch_setup")
    /\ Get(jobs[2].config, "batch_setup") = PyBool(TRUE)
    /\ jobs[2].sbatch_cmd = "source env.sh;sbatch"
    /\ running_id = PyInt(Len(jobs))

\* batch_setup is true but the project has no setup commands: plain sbatch
C12_WitnessNoCommands ==
    /\ pl_in.project_config.command_line_setup = <<>>
    /\ \E j \in 1..Len(jobs) :
          /\ Has(jobs[j].config, "batch_setup")
          /\ Get(jobs[j].config, "batch_setup") = PyBool(TRUE)
          /\ jobs[j].sbatch_cmd = "sbatch"
          /\ running_id = PyInt(Len(jobs))

(***************************************************************************)
(* Properties of configure_logging (SpecLogging).                          *)
(***************************************************************************)
HandlersOfKind(kind) == {i \in 1..Len(lg_handlers) : lg_handlers[i].kind = kind}

\* C13: after any number of configure_logging calls the root logger holds
\* only handlers the last call installed: exactly one console handler, and
\* one file handler, on the last call's log_dir, exactly when that call was
\* given a log_dir and could open its file; nothing an earlier call or
\* anyone else installed is left.
C13_NoAccumulation ==
    lg_calls > 0 =>
        /\ \A i \in 1..Len(lg_handlers) :
              /\ lg_handlers[i].call = lg_calls
              /\ lg_handlers[i].kind \in {"console", "file"}
        /\ Cardinality(HandlersOfKind("console")) = 1
        /\ Cardinality(HandlersOfKind("file")) = (IF lg_last.opened THEN 1 ELSE 0)
        /\ lg_last.opened => LogDirGiven(lg_last.log_dir)
        /\ \A i \in HandlersOfKind("file") :
              lg_handlers[i].target = lg_last.log_dir.parts

\* a console-only call after a call that had opened a log file
C13_Witness ==
    /\ lg_calls >= 2
    /\ ~LogDirGiven(lg_last.log_dir)
    /\ lg_fs.files # {}
    /\ Len(lg_handlers) = 1
    /\ lg_handlers[1].kind = "console"

\* a call that opened its log file after a call that had opened another
C13_WitnessFile ==
    /\ lg_calls >= 2
    /\ lg_last.opened
    /\ \E f \in lg_fs.files : f # lg_last.log_dir.parts
    /\ Len(lg_handlers) = 2

\* a call given a log_dir it could not open, after a call that could
C13_WitnessNotOpened ==
    /\ lg_calls >= 2
    /\ LogDirGiven(lg_last.log_dir)
    /\ ~lg_last.opened
    /\ lg_fs.files # {}
    /\ Len(lg_handlers) = 1

====
